---- MODULE Spec2Model ----
(***************************************************************************)
(* Model of src/app.js: an Express server whose handlers read, and for     *)
(* POST /users rewrite, JSON files under ./data.  One step of the model is *)
(* one run of handler code between two awaits (Node runs it atomically on  *)
(* its single thread); fs.readFile and fs.writeFile complete as one step   *)
(* each, and either may fail.  A failed write leaves the file as it was or *)
(* truncated.  Ids are positive integers throughout.                       *)
(***************************************************************************)
EXTENDS Integers, Sequences, FiniteSets, TLC

\* ------------------------------------------------------------------ bounds
MaxRequests   == 3    \* requests served one after another (SpecSeq)
MaxConcurrent == 2    \* requests that may be in flight together (Spec, SpecFair)
MaxInitId     == 2    \* largest id in the users file the server starts with
MaxBodyId     == 1    \* largest id a request body carries

Slots == 1 .. (IF MaxRequests > MaxConcurrent THEN MaxRequests ELSE MaxConcurrent)

\* ------------------------------------------------------- files and values
\* A file's content: absent from disk, text that is not JSON, or JSON text
\* (an array of objects, the literal null, or a top-level object) written
\* with some indentation.
Missing == [kind |-> "missing", recs |-> <<>>, indent |-> 0]
Garbage == [kind |-> "garbage", recs |-> <<>>, indent |-> 0]
JsonText(kind, recs, indent) == [kind |-> kind, recs |-> recs, indent |-> indent]

\* A value in memory: what JSON.parse returns.
JsValue(kind, recs) == [kind |-> kind, recs |-> recs]
JsNull  == JsValue("null", <<>>)
NoValue == JsValue("none", <<>>)

\* fs.readFile(path, 'utf8'): rejects when the file is absent or the read
\* fails, else resolves to the text.
fsReadFile(content, ioOk) ==
  IF ioOk /\ content.kind # "missing"
    THEN [ok |-> TRUE, data |-> content]
    ELSE [ok |-> FALSE, data |-> Missing]

\* Mutant of JSONparse: text that is not JSON is taken for an empty array.
JSONparseOrEmpty(data) ==
  IF data.kind \in {"array", "null", "object"}
    THEN [ok |-> TRUE, val |-> JsValue(data.kind, data.recs)]
    ELSE [ok |-> TRUE, val |-> JsValue("array", <<>>)]

\* JSON.parse(data): throws on text that is not JSON, else the value; the
\* indentation of the text is not part of the value.
JSONparse(data) ==
  IF data.kind \in {"array", "null", "object"}
    THEN [ok |-> TRUE, val |-> JsValue(data.kind, data.recs)]
    ELSE [ok |-> FALSE, val |-> NoValue]

\* JSON.stringify(value, null, indent)
JSONstringify(val, indent) == JsonText(val.kind, val.recs, indent)

\* readJsonFile: the parsed value, or null on any failure.
readJsonFile(content, ioOk) ==
  LET rd == fsReadFile(content, ioOk)
      pr == JSONparse(rd.data)
  IN IF rd.ok /\ pr.ok THEN pr.val ELSE JsNull

\* `if (users)`: of the values a file can hold only null is falsy.
Truthy(val) == val.kind # "null"

\* ---------------------------------------------------------------- routing
\* A route pattern is a sequence of segments: a literal, or a parameter
\* (":id") that matches any one segment.
Lit(s) == [param |-> FALSE, s |-> s]
Par(s) == [param |-> TRUE, s |-> s]

\* The routes in the order app.get / app.post / app.put / app.delete
\* register them; Express tries them in this order.
Routes ==
  << [method |-> "GET",    pattern |-> <<Lit("get")>>,                         handler |-> "get"],
     [method |-> "GET",    pattern |-> <<Lit("users")>>,                       handler |-> "users"],
     [method |-> "GET",    pattern |-> <<Lit("prettyusers")>>,                 handler |-> "prettyusers"],
     [method |-> "GET",    pattern |-> <<Par("api"), Par("route"), Par("variable")>>, handler |-> "paramEcho"],
     [method |-> "GET",    pattern |-> <<Lit("api"), Lit("users"), Par("id")>>, handler |-> "userById"],
     [method |-> "POST",   pattern |-> <<Lit("users")>>,                       handler |-> "postUsers"],
     [method |-> "GET",    pattern |-> <<Lit("api"), Lit("products")>>,        handler |-> "products"],
     [method |-> "GET",    pattern |-> <<Lit("api"), Lit("orders")>>,          handler |-> "orders"],
     [method |-> "POST",   pattern |-> <<Lit("api"), Lit("postExample")>>,     handler |-> "postExample"],
     [method |-> "PUT",    pattern |-> <<Lit("api"), Lit("putExample"), Par("id")>>, handler |-> "putExample"],
     [method |-> "DELETE", pattern |-> <<Lit("api"), Lit("deleteExample"), Par("id")>>, handler |-> "deleteExample"] >>

Matches(route, method, path) ==
  /\ route.method = method
  /\ Len(route.pattern) = Len(path)
  /\ \A i \in 1 .. Len(path) : route.pattern[i].param \/ route.pattern[i].s = path[i]

\* The handler that answers a request: the first registered route that
\* matches (no handler of this program calls next()), or Express's own 404.
Dispatch(method, path) ==
  LET hits == { i \in 1 .. Len(Routes) : Matches(Routes[i], method, path) }
  IN IF hits = {} THEN "notFound"
     ELSE Routes[CHOOSE i \in hits : \A j \in hits : i <= j].handler

\* The file a reading handler loads.
FileOf(handler) ==
  CASE handler = "products" -> "products"
    [] handler = "orders"   -> "orders"
    [] OTHER                -> "users"

\* parseInt(s, 10) on the id segments the model sends.
ParseInt(s) ==
  CASE s = "1" -> 1
    [] s = "2" -> 2
    [] s = "3" -> 3
    [] OTHER   -> 0

\* -------------------------------------------------------------- responses
Response(status, msg, val) == [status |-> status, msg |-> msg, val |-> val]
JsonOf(rec) == JsValue("record", <<rec>>)

\* users.find(u => u.id === userId): the first match, or none.
Find(recs, userId) ==
  LET hits == { i \in 1 .. Len(recs) : recs[i].id = userId }
  IN IF hits = {} THEN <<>> ELSE <<recs[CHOOSE i \in hits : \A j \in hits : i <= j]>>

\* What a file-reading GET handler sends once readJsonFile has returned.
GetResponse(handler, path, users) ==
  CASE handler = "users" ->
         IF Truthy(users) THEN Response(200, "", users)
         ELSE Response(500, "Error reading users data", NoValue)
    [] handler = "prettyusers" ->
         IF Truthy(users) THEN Response(200, "", users)
         ELSE Response(500, "Error reading Pretty users data", NoValue)
    [] handler = "products" ->
         IF Truthy(users) THEN Response(200, "", users)
         ELSE Response(500, "Error reading products data", NoValue)
    [] handler = "orders" ->
         IF Truthy(users) THEN Response(200, "", users)
         ELSE Response(500, "Error reading orders data", NoValue)
    [] handler = "userById" ->
         IF Truthy(users)
           THEN LET user == Find(users.recs, ParseInt(path[3]))
                IN IF user # <<>> THEN Response(200, "", JsonOf(user[1]))
                   ELSE Response(404, "User not found", NoValue)
           ELSE Response(500, "Error reading users data", NoValue)

\* Mutant of GetAnswers: the else branch is missing, so nothing is sent
\* when the file could not be read.
GetAnswersNoElse(handler, path, users) ==
  IF Truthy(users) THEN << GetResponse(handler, path, users) >> ELSE <<>>

\* Everything a file-reading GET handler sends, in order: each of its
\* branches sends exactly once.
GetAnswers(handler, path, users) == << GetResponse(handler, path, users) >>

\* What a handler that reads no file sends at once: a text that echoes the
\* request (Express itself answers 404 when no route matches).
EchoResponse(handler) ==
  IF handler = "notFound" THEN Response(404, "Cannot GET", NoValue)
  ELSE IF handler = "paramEcho" THEN Response(200, "GET request, req.params are", NoValue)
  ELSE Response(200, handler, NoValue)

\* ------------------------------------------------------------ POST /users
defaultRole == "peasant"

\* Math.max(...ids) for a non-empty list of ids.
RECURSIVE MathMax(_)
MathMax(ids) ==
  IF Len(ids) = 1 THEN ids[1]
  ELSE LET m == MathMax(Tail(ids)) IN IF ids[1] > m THEN ids[1] ELSE m

Ids(recs) == [i \in 1 .. Len(recs) |-> recs[i].id]

\* Mutant of NextId: one more than the id of the last record.
NextIdFromLast(recs) == IF Len(recs) > 0 THEN recs[Len(recs)].id + 1 ELSE 1

\* const nextId = users.length > 0 ? Math.max(...) + 1 : 1
NextId(recs) == IF Len(recs) > 0 THEN MathMax(Ids(recs)) + 1 ELSE 1

\* req.body.role || defaultRole: an absent role and the empty string are falsy.
RoleOf(body) ==
  IF "role" \in DOMAIN body /\ body.role # "" THEN body.role ELSE defaultRole

\* { id: nextId, ...req.body, role: req.body.role || defaultRole }: a later
\* key overwrites an earlier one.
NewUser(nextId, body) == [role |-> RoleOf(body)] @@ body @@ [id |-> nextId]

\* Mutant of Push: the new record goes to the front.
PushFront(recs, rec) == <<rec>> \o recs

\* users.push(newUser)
Push(recs, rec) == Append(recs, rec)

\* Mutant of WriteStatus: 201 whether or not the write succeeded.
WriteStatusNoCheck(writeOk) == 201

\* The status POST /users sends once fs.writeFile has settled.
WriteStatus(writeOk) == IF writeOk THEN 201 ELSE 500

\* ------------------------------------------------------------------ state
VARIABLES
  files,    \* content of ./data/<name>.json, by name
  req,      \* per request: the handler's position and locals, how its read and
            \* its write went (rdIo, wr), and what was sent (resp)
  writes    \* requests whose fs.writeFile has settled, in the order it did

vars == <<files, req, writes>>

\* A request that has not arrived yet.
Idle ==
  [pc |-> "idle", method |-> "", path |-> <<>>, handler |-> "", body |-> <<>>,
   rdIo |-> "none", loaded |-> <<>>, nextId |-> 0, newUser |-> <<>>,
   users |-> <<>>, wr |-> "none", resp |-> <<>>]

\* ----------------------------------------------------------------- inputs
UserRec(i) == [id |-> i, role |-> defaultRole]

\* Arrays of user records with distinct ids, in any order.
InitUserLists ==
  { [i \in 1 .. Len(s) |-> UserRec(s[i])] :
      s \in { t \in UNION { [1 .. n -> 1 .. MaxInitId] : n \in 0 .. MaxInitId } :
                \A i, j \in 1 .. Len(t) : i # j => t[i] # t[j] } }

InitUsersFiles ==
  { JsonText("array", l, 2) : l \in InitUserLists }
    \cup { Missing, Garbage, JsonText("null", <<>>, 0), JsonText("object", <<>>, 0) }

InitOtherFiles == { JsonText("array", <<[id |-> 1]>>, 2), Missing }

\* products.json and orders.json: one present, the other absent.
InitOtherPairs ==
  { f \in [ {"products", "orders"} -> InitOtherFiles ] : f.products # f.orders }

\* Request bodies, after express.json(): the example body of the source,
\* with a role, with an empty role, and with an id of the caller's own.
Bodies ==
  { [name |-> "John Doe"],
    [name |-> "John Doe", role |-> "admin"],
    [name |-> "John Doe", role |-> ""] }
    \cup { [name |-> "John Doe", id |-> i] : i \in 1 .. MaxBodyId }

GetPaths ==
  { <<"users">>, <<"prettyusers">>, <<"api", "products">>, <<"api", "orders">>,
    <<"api", "users", "1">> }

Init ==
  /\ \E u \in InitUsersFiles, o \in InitOtherPairs :
       files = [users |-> u, products |-> o.products, orders |-> o.orders]
  /\ req = [r \in Slots |-> Idle]
  /\ writes = <<>>

\* ---------------------------------------------------------------- actions
InFlight(r) == req[r].pc \in {"read", "write"}

\* Requests take the slots in order.
CanArrive(r, limit) ==
  /\ r <= limit
  /\ req[r].pc = "idle"
  /\ r > 1 => req[r - 1].pc # "idle"

\* A GET request arrives: Express runs the first matching handler up to
\* its first await (readJsonFile), or to its end when it reads no file.
ArriveGet(r, path, limit) ==
  /\ CanArrive(r, limit)
  /\ LET h == Dispatch("GET", path)
     IN req' = [req EXCEPT ![r] =
          IF h \in {"users", "prettyusers", "products", "orders", "userById"}
            THEN [@ EXCEPT !.pc = "read", !.method = "GET", !.path = path, !.handler = h]
            ELSE [@ EXCEPT !.pc = "done", !.method = "GET", !.path = path, !.handler = h,
                           !.resp = Append(@, EchoResponse(h))]]
  /\ UNCHANGED <<files, writes>>

\* readJsonFile returns to a GET handler, which answers.
GetReadDone(r, ioOk) ==
  /\ req[r].pc = "read"
  /\ req[r].method = "GET"
  /\ LET users == readJsonFile(files[FileOf(req[r].handler)], ioOk)
     IN req' = [req EXCEPT ![r] =
          [@ EXCEPT !.pc = "done",
                    !.rdIo = IF ioOk THEN "ok" ELSE "failed",
                    !.resp = @ \o GetAnswers(req[r].handler, req[r].path, users)]]
  /\ UNCHANGED <<files, writes>>

\* POST /users arrives: the handler starts fs.readFile.
ArrivePost(r, body, limit) ==
  /\ CanArrive(r, limit)
  /\ req' = [req EXCEPT ![r] =
       [@ EXCEPT !.pc = "read", !.method = "POST", !.path = <<"users">>,
                 !.handler = Dispatch("POST", <<"users">>), !.body = body]]
  /\ UNCHANGED <<files, writes>>

\* fs.readFile settles in POST /users: on a rejected read, a parse error or
\* a value that is no array the catch block answers 500; otherwise the
\* handler computes nextId, builds newUser, pushes it and starts fs.writeFile.
PostReadDone(r, ioOk) ==
  /\ req[r].pc = "read"
  /\ req[r].method = "POST"
  /\ LET rd == fsReadFile(files.users, ioOk)
         pr == JSONparse(rd.data)
     IN IF rd.ok /\ pr.ok /\ pr.val.kind = "array"
          THEN LET nextId  == NextId(pr.val.recs)
                   newUser == NewUser(nextId, req[r].body)
               IN req' = [req EXCEPT ![r] =
                    [@ EXCEPT !.pc = "write", !.rdIo = IF ioOk THEN "ok" ELSE "failed", !.loaded = pr.val.recs,
                              !.nextId = nextId, !.newUser = <<newUser>>,
                              !.users = Push(pr.val.recs, newUser)]]
          ELSE req' = [req EXCEPT ![r] =
                    [@ EXCEPT !.pc = "done", !.rdIo = IF ioOk THEN "ok" ELSE "failed",
                              !.resp = Append(@, Response(500, "Error processing request", NoValue))]]
  /\ UNCHANGED <<files, writes>>

\* Mutant of PostWriteDone: the write appends newUser to the array the file
\* holds when it is written, not to the array loaded earlier.
PostWriteMerged(r, ioOk, damaged) ==
  /\ req[r].pc = "write"
  /\ files' = [files EXCEPT !.users =
       IF ioOk THEN JSONstringify(JsValue("array", Push(@.recs, req[r].newUser[1])), 4)
       ELSE IF damaged THEN Garbage ELSE @]
  /\ writes' = Append(writes, r)
  /\ req' = [req EXCEPT ![r] =
       [@ EXCEPT !.pc = "done", !.wr = IF ioOk THEN "ok" ELSE "failed",
                 !.resp = Append(@,
                   IF ioOk THEN Response(201, "", JsonOf(req[r].newUser[1]))
                   ELSE Response(500, "Error processing request", NoValue))]]

\* fs.writeFile settles in POST /users: on success the file holds the
\* serialised array and the handler answers 201 with newUser; on failure the
\* file is as it was or is left truncated, and the catch block answers 500.
PostWriteDone(r, ioOk, damaged) ==
  /\ req[r].pc = "write"
  /\ files' = [files EXCEPT !.users =
       IF ioOk THEN JSONstringify(JsValue("array", req[r].users), 4)
       ELSE IF damaged THEN Garbage ELSE @]
  /\ writes' = Append(writes, r)
  /\ req' = [req EXCEPT ![r] =
       [@ EXCEPT !.pc = "done", !.wr = IF ioOk THEN "ok" ELSE "failed",
                 !.resp = Append(@,
                   IF WriteStatus(ioOk) = 201
                     THEN Response(201, "", JsonOf(req[r].newUser[1]))
                     ELSE Response(500, "Error processing request", NoValue))]]

\* ---------------------------------------------------------- specifications
Quiet == \A r \in Slots : ~InFlight(r)

\* Requests interleave at their awaits.
Next ==
  \/ \E r \in Slots, path \in GetPaths : ArriveGet(r, path, MaxConcurrent)
  \/ \E r \in Slots, body \in Bodies : ArrivePost(r, body, MaxConcurrent)
  \/ \E r \in Slots, ioOk \in BOOLEAN : GetReadDone(r, ioOk)
  \/ \E r \in Slots, ioOk \in BOOLEAN : PostReadDone(r, ioOk)
  \/ \E r \in Slots, ioOk \in BOOLEAN, damaged \in BOOLEAN : PostWriteDone(r, ioOk, damaged)

Spec == Init /\ [][Next]_vars

\* Requests run one after another: none arrives while another is in flight.
NextSeq ==
  \/ \E r \in Slots, path \in GetPaths : Quiet /\ ArriveGet(r, path, MaxRequests)
  \/ \E r \in Slots, body \in Bodies : Quiet /\ ArrivePost(r, body, MaxRequests)
  \/ \E r \in Slots, ioOk \in BOOLEAN : GetReadDone(r, ioOk)
  \/ \E r \in Slots, ioOk \in BOOLEAN : PostReadDone(r, ioOk)
  \/ \E r \in Slots, ioOk \in BOOLEAN, damaged \in BOOLEAN : PostWriteDone(r, ioOk, damaged)

SpecSeq == Init /\ [][NextSeq]_vars

\* Every I/O operation a handler awaits settles: libuv completes each
\* fs request and Node resumes the handler.
SpecFair ==
  /\ Init /\ [][Next]_vars
  /\ \A r \in Slots :
       /\ WF_vars(\E ioOk \in BOOLEAN : GetReadDone(r, ioOk))
       /\ WF_vars(\E ioOk \in BOOLEAN : PostReadDone(r, ioOk))
       /\ WF_vars(\E ioOk \in BOOLEAN, damaged \in BOOLEAN : PostWriteDone(r, ioOk, damaged))

\* ----------------------------------------------------------------- claims
Done(r) == req[r].pc = "done"
IsCreate(r) == req[r].handler = "postUsers"
IsGetAll(r) == req[r].handler \in {"users", "prettyusers"}
Answered(r, status) ==
  Done(r) /\ Len(req[r].resp) = 1 /\ req[r].resp[1].status = status
\* The record a 201 answer carries.
Created(r) == req[r].resp[1].val.recs[1]
UniqueIds(recs) == \A i, j \in 1 .. Len(recs) : i # j => recs[i].id # recs[j].id
IdSet(recs) == { recs[i].id : i \in 1 .. Len(recs) }
MaxOf(S) == CHOOSE m \in S : \A x \in S : x <= m

\* C1: when create calls run one after another from a users file whose ids
\* are unique, no two records of the stored collection share an id,
\* whatever the request bodies (also bodies that carry an id).
C1_NoDuplicateIdSequential ==
  files.users.kind = "array" => UniqueIds(files.users.recs)

\* C2: a create answered 201 returns and stores a record whose id is 1 when
\* the loaded collection is empty, else the largest loaded id plus one,
\* for every request body.
C2_IdIsMaxPlusOne ==
  \A r \in Slots :
    IsCreate(r) /\ Answered(r, 201) =>
      LET expected == IF req[r].loaded = <<>> THEN 1
                      ELSE MaxOf(IdSet(req[r].loaded)) + 1
      IN /\ Created(r).id = expected
         /\ req[r].users[Len(req[r].users)].id = expected

\* C3: the default role is applied only when the body has no role field: a
\* body with a role, whatever its value, keeps it; a body without gets
\* "peasant".
C3_DefaultRoleOnlyWhenAbsent ==
  \A r \in Slots :
    IsCreate(r) /\ Answered(r, 201) =>
      IF "role" \in DOMAIN req[r].body
        THEN Created(r).role = req[r].body.role
        ELSE Created(r).role = "peasant"

\* C4: GET /api/users/:id is answered by the getById logic on the users
\* file as it is when the answer is sent: 200 with the record whose id is
\* :id, 404 when the collection loads without it, 500 when it cannot be
\* loaded.
C4_GetByIdAnswers ==
  [][ \A r \in Slots :
        ( /\ ~Done(r)
          /\ req'[r].pc = "done"
          /\ req'[r].method = "GET"
          /\ Len(req'[r].path) = 3
          /\ req'[r].path[1] = "api" /\ req'[r].path[2] = "users" )
        => \E ioOk \in BOOLEAN :
             req'[r].resp =
               << GetResponse("userById", req'[r].path, readJsonFile(files.users, ioOk)) >>
    ]_vars

\* C5: getAll, then one successful create, then getAll, with nothing in
\* between: the second list is the first with the new record appended.
C5_CreateAppends ==
  \A r \in Slots :
    ( /\ r + 2 \in Slots
      /\ IsGetAll(r) /\ Answered(r, 200)
      /\ IsCreate(r + 1) /\ Answered(r + 1, 201)
      /\ IsGetAll(r + 2) /\ Answered(r + 2, 200) )
    => req[r + 2].resp[1].val =
         JsValue("array", Append(req[r].resp[1].val.recs, Created(r + 1)))

C5_Witness ==
  \E r \in Slots :
    /\ r + 2 \in Slots
    /\ IsGetAll(r) /\ Answered(r, 200) /\ Len(req[r].resp[1].val.recs) >= 2
    /\ IsCreate(r + 1) /\ Answered(r + 1, 201)
    /\ IsGetAll(r + 2) /\ Answered(r + 2, 200)

\* Two creates that loaded the same array, whose ids are 1..N.
SameLoad(a, b) ==
  /\ a # b
  /\ IsCreate(a) /\ IsCreate(b)
  /\ req[a].newUser # <<>> /\ req[b].newUser # <<>>
  /\ req[a].loaded = req[b].loaded
  /\ IdSet(req[a].loaded) = 1 .. Len(req[a].loaded)

\* C6: two creates that both read a users file with ids 1..N before either
\* writes both compute id N+1, and both are answered 201 with a record
\* carrying N+1 (their bodies carrying no id); the witness is that
\* interleaving.
C6_SameIdTwice ==
  \A a, b \in Slots :
    SameLoad(a, b) =>
      LET n == Len(req[a].loaded)
      IN /\ req[a].nextId = n + 1
         /\ req[b].nextId = n + 1
         /\ ( /\ "id" \notin DOMAIN req[a].body
              /\ "id" \notin DOMAIN req[b].body
              /\ req[a].wr = "ok" /\ req[b].wr = "ok" )
            => /\ Answered(a, 201) /\ Answered(b, 201)
               /\ Created(a).id = n + 1
               /\ Created(b).id = n + 1

C6_Witness ==
  \E a, b \in Slots :
    /\ SameLoad(a, b)
    /\ Len(req[a].loaded) >= 1
    /\ Answered(a, 201) /\ Answered(b, 201)
    /\ Created(a).id = Len(req[a].loaded) + 1
    /\ Created(b).id = Created(a).id

\* C7: two creates load the same array of N records and both are answered
\* 201; once both have written, the file holds the loaded array plus only
\* the record of the one that wrote last: N+1 records, the first writer's
\* record gone.
C7_LostUpdate ==
  \A a, b \in Slots :
    ( /\ a # b
      /\ IsCreate(a) /\ IsCreate(b)
      /\ Answered(a, 201) /\ Answered(b, 201)
      /\ req[a].loaded = req[b].loaded
      /\ writes # <<>> /\ writes[Len(writes)] = b )
    => /\ files.users.kind = "array"
       /\ files.users.recs = Append(req[b].loaded, Created(b))
       /\ Len(files.users.recs) = Len(req[a].loaded) + 1

C7_Witness ==
  \E a, b \in Slots :
    /\ a # b
    /\ IsCreate(a) /\ IsCreate(b)
    /\ Answered(a, 201) /\ Answered(b, 201)
    /\ req[a].loaded = req[b].loaded
    /\ writes = <<a, b>>
    /\ Created(a) # Created(b)
    /\ \A i \in 1 .. Len(files.users.recs) : files.users.recs[i] # Created(a)

\* C8: a create whose read finds the users file missing, unreadable or not
\* JSON ends there: it answers 500, builds no record, and leaves every file
\* as it was.
C8_ReadFailureFailsCreate ==
  [][ \A r \in Slots :
        ( /\ req[r].pc = "read" /\ req[r].method = "POST"
          /\ req'[r].pc # "read"
          /\ \/ files.users.kind \in {"missing", "garbage"}
             \/ req'[r].rdIo = "failed" )
        => /\ req'[r].pc = "done"
           /\ Len(req'[r].resp) = 1 /\ req'[r].resp[1].status = 500
           /\ req'[r].newUser = <<>>
           /\ files' = files
           /\ writes' = writes
    ]_vars

C8_Witness ==
  \E r \in Slots :
    /\ IsCreate(r) /\ Answered(r, 500)
    /\ req[r].rdIo = "ok" /\ req[r].wr = "none"
    /\ files.users.kind = "garbage"
    /\ writes = <<>>

\* C9: a create answers 201 only in the step in which its write succeeds,
\* the file then holding the array with the new record last; when the write
\* fails it answers 500 and nothing else.
C9_CreatedOnlyAfterWrite ==
  [][ \A r \in Slots :
        (IsCreate(r) /\ req'[r].resp # req[r].resp) =>
          /\ Len(req'[r].resp) = 1
          /\ req'[r].resp[1].status \in {201, 500}
          /\ req'[r].resp[1].status = 201 =>
               /\ req[r].pc = "write" /\ req'[r].wr = "ok"
               /\ files'.users.kind = "array"
               /\ files'.users.recs # <<>>
               /\ files'.users.recs[Len(files'.users.recs)] = req'[r].resp[1].val.recs[1]
          /\ req'[r].wr = "failed" => req'[r].resp[1].status = 500
    ]_vars

C9_Witness ==
  \E r, s \in Slots :
    /\ IsCreate(r) /\ req[r].wr = "failed" /\ Answered(r, 500)
    /\ IsCreate(s) /\ req[s].wr = "ok" /\ Answered(s, 201)

\* C10: every request that has arrived is in the end answered exactly once,
\* whatever the files hold and whether its read and write succeed; no
\* request is ever answered twice, and after a request has ended, also with
\* a 500, the next one can arrive.
C10_AlwaysOneAnswer ==
  /\ [](\A r \in Slots : Len(req[r].resp) <= 1)
  /\ [](\A r \in Slots :
          (r + 1 <= MaxConcurrent /\ Done(r) /\ req[r + 1].pc = "idle")
          => ENABLED (\E path \in GetPaths : ArriveGet(r + 1, path, MaxConcurrent)))
  /\ \A r \in Slots :
       (req[r].pc # "idle") ~> (Done(r) /\ Len(req[r].resp) = 1)

C10_Witness ==
  \E r, s \in Slots :
    /\ r < s
    /\ req[r].handler \in {"users", "prettyusers", "products", "orders", "postUsers"}
    /\ Answered(r, 500)
    /\ req[s].handler \in {"users", "prettyusers", "products", "orders", "postUsers"}
    /\ req[s].resp # <<>> /\ req[s].resp[1].status \in {200, 201}
====
